---- MODULE Spec2Model ----
(***************************************************************************)
(* Model of out/src/index.js: the coverage runner that hooks require,      *)
(* runs the mocha tests and writes the coverage report in the process      *)
(* exit listener.                                                          *)
(*                                                                         *)
(* Paths are abstracted to file names.  A name stands for the absolute     *)
(* path of a file; "B.js" stands for a path that contains upper-case       *)
(* letters, "a.js" for one that is already all lower case.  No source-map  *)
(* (.map) file exists in the modelled file system, so the transformer      *)
(* always takes its catch branch and the source-map store translates       *)
(* nothing.                                                                *)
(***************************************************************************)
EXTENDS Integers, Sequences, FiniteSets, TLC

VARIABLES
    platform,       \* os.platform()
    disk,           \* source files present under the source root
    configFile,     \* the coverage config file at testsRoot/coverConfig
    testOptions,    \* module variable testOptions (line 23)
    pc,             \* position of the run: idle, threw, globbing, loading, running, done
    runThrew,       \* an exception escaped run()
    clbCalls,       \* calls of the completion callback, in order
    coverOptions,   \* CoverageRunner.options (kind "none" when no runner was built)
    matchFiles,     \* matchFn.files = Object.keys(fileMap)
    hooked,         \* the require hook is installed
    covDefined,     \* global[coverageVar] is defined
    cov,            \* global[coverageVar]: file name -> FileCoverage
    exitListeners,  \* number of 'exit' listeners registered by setupCoverage
    moduleCache,    \* require.cache: file name -> loaded through the hook?
    mochaFiles,     \* files added to mocha
    loads,          \* number of require() calls of the test run so far
    execs,          \* number of statement executions after load so far
    exited,         \* the process 'exit' event has been emitted
    reportCalls,    \* number of calls of reportCoverage
    covAtExit,      \* the counter table as reportCoverage found it
    coverageMap,    \* the CoverageMap built at line 138
    noCoverageLogged, \* console.error of line 115 happened
    dirs,           \* directories that exist under testsRoot
    createdDirs,    \* directories created by mkdirSync
    snapshots,      \* JSON files written: file name -> content
    rendered,       \* report types rendered, in order
    exitThrew,      \* an exception escaped the exit listener
    clock,          \* new Date().getTime(), in milliseconds
    runners,        \* coverageVar of every CoverageRunner set up in this process
    globals,        \* the process's globals: coverageVar -> counter table
    procs           \* concurrent runner processes in their exit hooks

vars == <<platform, disk, configFile, testOptions, pc, runThrew, clbCalls,
          coverOptions, matchFiles, hooked, covDefined, cov, exitListeners,
          moduleCache, mochaFiles, loads, execs, exited, reportCalls,
          covAtExit, coverageMap, noCoverageLogged, dirs, createdDirs,
          snapshots, rendered, exitThrew, clock, runners, globals, procs>>

\* state of the scenarios with several runs or several processes
sideVars == <<clock, runners, globals, procs>>

\* state of a single run in a single process
runVars == <<platform, disk, configFile, testOptions, pc, runThrew, clbCalls,
             coverOptions, matchFiles, hooked, covDefined, cov, exitListeners,
             moduleCache, mochaFiles, loads, execs, exited, reportCalls,
             covAtExit, coverageMap, noCoverageLogged, dirs, createdDirs,
             snapshots, rendered, exitThrew>>

(***************************************************************************)
(* Bounds                                                                  *)
(***************************************************************************)
MaxLoads == 2      \* require() calls made by the test run
MaxExecs == 1      \* statement executions after a module's load
MaxFailures == 1   \* failure count reported by mocha

(***************************************************************************)
(* Files                                                                   *)
(***************************************************************************)
SrcNames == {"a.js", "A.js", "b.js", "B.js"}
TestNames == {"t.test.js"}
Names == SrcNames \cup TestNames

\* String.prototype.toLocaleLowerCase on a path
ToLocaleLowerCase(n) ==
    CASE n = "A.js" -> "a.js"
      [] n = "B.js" -> "b.js"
      [] OTHER -> n

\* Source trees checked: any subset of {a.js, B.js}
DiskSets == SUBSET {"a.js", "B.js"}

\* The names under which require() can reach a file that is on disk: the
\* exact name, and on win32 (case-insensitive file system) every casing.
AllOnDisk == disk \cup TestNames
Requirable ==
    IF platform = "win32"
    THEN {n \in Names : \E d \in AllOnDisk : ToLocaleLowerCase(n) = ToLocaleLowerCase(d)}
    ELSE AllOnDisk

\* Statements of a file, with the ones that are function declarations and
\* the ones the module's top level executes when it is loaded.
StmtIds == {1, 2}
FnDecls(n) ==
    CASE ToLocaleLowerCase(n) = "a.js" -> {2}
      [] ToLocaleLowerCase(n) = "b.js" -> {1}
      [] OTHER -> {}
TopLevel(n) ==
    CASE ToLocaleLowerCase(n) = "a.js" -> {1}
      [] ToLocaleLowerCase(n) = "b.js" -> {2}
      [] OTHER -> {1}

(***************************************************************************)
(* Coverage config file                                                    *)
(***************************************************************************)
ReportLists ==
    { [isArray |-> FALSE, list |-> <<>>],
      [isArray |-> TRUE,  list |-> <<>>],
      [isArray |-> TRUE,  list |-> <<"lcovonly", "html">>],
      [isArray |-> TRUE,  list |-> <<"lcovonly", "bogus", "html">>] }

DefaultConfig ==
    [ kind |-> "ok", enabled |-> TRUE, relativeSourcePath |-> "../src",
      ignorePatterns |-> {}, relativeCoverageDir |-> "coverage",
      includePid |-> FALSE,
      reports |-> [isArray |-> TRUE, list |-> <<"lcovonly", "html">>] ]

\* Configs checked: the default one and every config that differs from it in
\* one field, plus a missing file and a file that is not JSON.
ConfigFiles ==
    { [DefaultConfig EXCEPT !.kind = k] : k \in {"missing", "malformed"} }
    \cup { [DefaultConfig EXCEPT !.enabled = e] : e \in BOOLEAN }
    \cup { [DefaultConfig EXCEPT !.relativeSourcePath = p] :
              p \in {"undefined", "null", "", "../src"} }
    \cup { [DefaultConfig EXCEPT !.ignorePatterns = i] : i \in {{}, {"B.js"}} }
    \cup { [DefaultConfig EXCEPT !.relativeCoverageDir = d] :
              d \in {"coverage", "deep/coverage"} }
    \cup { [DefaultConfig EXCEPT !.includePid = b] : b \in BOOLEAN }
    \cup { [DefaultConfig EXCEPT !.reports = r] : r \in ReportLists }

NoOptions == [DefaultConfig EXCEPT !.kind = "none"]

\* JavaScript truthiness of options.relativeSourcePath
Truthy(p) == p \notin {"undefined", "null", ""}

EmptyTable == [n \in {} |-> 0]

\* runner processes that exit concurrently
Procs == {1, 2}

Init ==
    /\ platform \in {"win32", "linux"}
    /\ disk \in DiskSets
    /\ configFile \in ConfigFiles
    /\ testOptions = "undefined"
    /\ pc = "idle"
    /\ runThrew = FALSE
    /\ clbCalls = <<>>
    /\ coverOptions = NoOptions
    /\ matchFiles = {}
    /\ hooked = FALSE
    /\ covDefined = FALSE
    /\ cov = EmptyTable
    /\ exitListeners = 0
    /\ \E pre \in SUBSET disk :
          /\ Cardinality(pre) <= 1
          /\ moduleCache = [n \in pre |-> FALSE]
    /\ mochaFiles = {}
    /\ loads = 0
    /\ execs = 0
    /\ exited = FALSE
    /\ reportCalls = 0
    /\ covAtExit = EmptyTable
    /\ coverageMap = [built |-> FALSE, map |-> EmptyTable]
    /\ noCoverageLogged = FALSE
    /\ dirs \in {{}, {"coverage"}}
    /\ createdDirs = {}
    /\ snapshots = EmptyTable
    /\ rendered = <<>>
    /\ exitThrew = FALSE
    /\ clock = 0
    /\ runners = <<>>
    /\ globals = EmptyTable
    /\ procs = [p \in Procs |-> [pc |-> "start", sawDir |-> FALSE]]


(***************************************************************************)
(* Helpers of run and of CoverageRunner                                    *)
(***************************************************************************)
ErrorCall == [kind |-> "error", failures |-> 0]
CountCall(k) == [kind |-> "count", failures |-> k]

\* readCoverOptions throws: testOptions.coverConfig with testOptions
\* undefined (run before configure), or JSON.parse of a malformed file
ReadCoverOptionsThrows ==
    \/ testOptions = "undefined"
    \/ configFile.kind = "malformed"

\* readCoverOptions' result: undefined (kind "none") when the file is missing
ReadCoverOptions ==
    IF configFile.kind = "ok" THEN configFile ELSE NoOptions

\* a guard that forgets the enabled flag
CoverageRequestedAnyConfig(opts) == opts.kind = "ok"

\* the guard of run: coverOptions && coverOptions.enabled
CoverageRequested(opts) == opts.kind = "ok" /\ opts.enabled

\* the constructor's check of relativeSourcePath: the callback calls it makes
ConstructorCalls(opts) ==
    IF ~Truthy(opts.relativeSourcePath) THEN <<ErrorCall>> ELSE <<>>

\* path.join(testsRoot, relativeSourcePath) throws a TypeError unless the
\* argument is a string
SourceRootThrows(opts) == opts.relativeSourcePath \in {"undefined", "null"}

\* glob.sync under the source root: path.join(testsRoot, '') is testsRoot
\* itself, whose .js files are the test files
SrcFiles(opts) ==
    (IF opts.relativeSourcePath = "" THEN TestNames ELSE disk)
        \ opts.ignorePatterns

\* the key under which setupCoverage enters a file in fileMap
FileMapKey(file) ==
    IF platform = "win32" THEN ToLocaleLowerCase(file) ELSE file

FileMapKeys(files) == {FileMapKey(f) : f \in files}

\* matchFn
MatchFn(file) == FileMapKey(file) \in matchFiles

\* decache(fullPath) for every key: the entry under that very name is dropped
Decache(cache, keys) == [n \in DOMAIN cache \ keys |-> cache[n]]

\* a setup that never installs the hook
HookRequireSkipped == FALSE

\* iLibHook.hookRequire installs the hook
HookRequire == TRUE

\* a setup that registers the exit listener twice
RegisterExitTwice(n) == n + 2

\* process.on('exit', ...) adds one listener
RegisterExit(n) == n + 1

\* instrumentSync: the FileCoverage of a file as the instrumenter creates it,
\* every FunctionDeclaration statement seeded with 1
Instrument(n) ==
    [path |-> n, s |-> [i \in StmtIds |-> IF i \in FnDecls(n) THEN 1 ELSE 0]]

\* the FileCoverage once the instrumented module's top level has run
LoadedCoverage(n) ==
    [path |-> n,
     s |-> [i \in StmtIds |->
              Instrument(n).s[i] + (IF i \in TopLevel(n) THEN 1 ELSE 0)]]

Extend(f, k, v) == [x \in DOMAIN f \cup {k} |-> IF x = k THEN v ELSE f[x]]

(***************************************************************************)
(* configure and run                                                       *)
(***************************************************************************)
Configure ==
    /\ pc = "idle" /\ ~exited
    /\ testOptions = "undefined"
    /\ testOptions' = "set"
    /\ UNCHANGED <<platform, disk, configFile, pc, runThrew, clbCalls,
                   coverOptions, matchFiles, hooked, covDefined, cov,
                   exitListeners, moduleCache, mochaFiles, loads, execs,
                   exited, reportCalls, covAtExit, coverageMap,
                   noCoverageLogged, dirs, createdDirs, snapshots, rendered,
                   exitThrew>>
    /\ UNCHANGED sideVars

\* run, up to the point where it has started the asynchronous glob
Run ==
    /\ pc = "idle" /\ ~exited
    /\ IF ReadCoverOptionsThrows
       THEN /\ pc' = "threw"
            /\ runThrew' = TRUE
            /\ UNCHANGED <<clbCalls, coverOptions, matchFiles, hooked,
                           covDefined, cov, exitListeners, moduleCache>>
       ELSE LET opts == ReadCoverOptions IN
            IF ~CoverageRequested(opts)
            THEN /\ pc' = "globbing"
                 /\ UNCHANGED <<runThrew, clbCalls, coverOptions, matchFiles,
                                hooked, covDefined, cov, exitListeners,
                                moduleCache>>
            ELSE /\ coverOptions' = opts
                 /\ clbCalls' = clbCalls \o ConstructorCalls(opts)
                 /\ IF SourceRootThrows(opts)
                    THEN /\ pc' = "threw"
                         /\ runThrew' = TRUE
                         /\ UNCHANGED <<matchFiles, hooked, covDefined, cov,
                                        exitListeners, moduleCache>>
                    ELSE /\ matchFiles' = FileMapKeys(SrcFiles(opts))
                         /\ moduleCache' =
                               Decache(moduleCache, FileMapKeys(SrcFiles(opts)))
                         /\ hooked' = HookRequire
                         /\ covDefined' = TRUE
                         /\ cov' = EmptyTable
                         /\ exitListeners' = RegisterExit(exitListeners)
                         /\ pc' = "globbing"
                         /\ UNCHANGED runThrew
    /\ UNCHANGED <<platform, disk, configFile, testOptions, mochaFiles, loads,
                   execs, exited, reportCalls, covAtExit, coverageMap,
                   noCoverageLogged, dirs, createdDirs, snapshots, rendered,
                   exitThrew>>
    /\ UNCHANGED sideVars

\* the glob callback with an error
GlobError ==
    /\ pc = "globbing" /\ ~exited
    /\ clbCalls' = Append(clbCalls, ErrorCall)
    /\ pc' = "done"
    /\ UNCHANGED <<platform, disk, configFile, testOptions, runThrew,
                   coverOptions, matchFiles, hooked, covDefined, cov,
                   exitListeners, moduleCache, mochaFiles, loads, execs,
                   exited, reportCalls, covAtExit, coverageMap,
                   noCoverageLogged, dirs, createdDirs, snapshots, rendered,
                   exitThrew>>
    /\ UNCHANGED sideVars

\* the glob callback with the test files: they are added to mocha and
\* mocha.run starts loading them
GlobFiles ==
    /\ pc = "globbing" /\ ~exited
    /\ mochaFiles' = TestNames
    /\ pc' = "loading"
    /\ UNCHANGED <<platform, disk, configFile, testOptions, runThrew, clbCalls,
                   coverOptions, matchFiles, hooked, covDefined, cov,
                   exitListeners, moduleCache, loads, execs, exited,
                   reportCalls, covAtExit, coverageMap, noCoverageLogged, dirs,
                   createdDirs, snapshots, rendered, exitThrew>>
    /\ UNCHANGED sideVars

\* a require() made while mocha loads the test files or runs the tests: of a
\* test file by mocha, or of a source file by test code.  With the hook
\* installed and matchFn true the module is instrumented, and its top level
\* registers its FileCoverage in the counter table under the required name.
Require(n) ==
    /\ pc \in {"loading", "running"} /\ ~exited
    /\ n \in Requirable
    /\ n \notin DOMAIN moduleCache
    /\ n \in TestNames => pc = "loading"
    /\ n \notin TestNames => loads < MaxLoads
    /\ loads' = IF n \in TestNames THEN loads ELSE loads + 1
    /\ LET instrumented == hooked /\ MatchFn(n) IN
         /\ moduleCache' = Extend(moduleCache, n, instrumented)
         /\ IF instrumented
            THEN /\ covDefined' = TRUE
                 /\ cov' = IF covDefined /\ n \in DOMAIN cov
                           THEN cov
                           ELSE Extend(cov, n, LoadedCoverage(n))
            ELSE UNCHANGED <<covDefined, cov>>
    /\ UNCHANGED <<platform, disk, configFile, testOptions, pc, runThrew,
                   clbCalls, coverOptions, matchFiles, hooked, exitListeners,
                   mochaFiles, execs, exited, reportCalls, covAtExit,
                   coverageMap, noCoverageLogged, dirs, createdDirs, snapshots,
                   rendered, exitThrew>>
    /\ UNCHANGED sideVars

\* instrumented code of a loaded module executes statement i once more
Execute(n, i) ==
    /\ pc \in {"loading", "running"} /\ ~exited
    /\ n \in DOMAIN cov
    /\ execs < MaxExecs
    /\ execs' = execs + 1
    /\ cov' = [cov EXCEPT ![n].s[i] = @ + 1]
    /\ UNCHANGED <<platform, disk, configFile, testOptions, pc, runThrew,
                   clbCalls, coverOptions, matchFiles, hooked, covDefined,
                   exitListeners, moduleCache, mochaFiles, loads, exited,
                   reportCalls, covAtExit, coverageMap, noCoverageLogged, dirs,
                   createdDirs, snapshots, rendered, exitThrew>>
    /\ UNCHANGED sideVars

\* loading a test file throws inside mocha.run: the catch of run reports it
LoadThrows ==
    /\ pc = "loading" /\ ~exited
    /\ clbCalls' = Append(clbCalls, ErrorCall)
    /\ pc' = "done"
    /\ UNCHANGED <<platform, disk, configFile, testOptions, runThrew,
                   coverOptions, matchFiles, hooked, covDefined, cov,
                   exitListeners, moduleCache, mochaFiles, loads, execs,
                   exited, reportCalls, covAtExit, coverageMap,
                   noCoverageLogged, dirs, createdDirs, snapshots, rendered,
                   exitThrew>>
    /\ UNCHANGED sideVars

\* every test file is loaded: mocha.run returns and the tests run
LoadDone ==
    /\ pc = "loading" /\ ~exited
    /\ mochaFiles \subseteq DOMAIN moduleCache
    /\ pc' = "running"
    /\ UNCHANGED <<platform, disk, configFile, testOptions, runThrew, clbCalls,
                   coverOptions, matchFiles, hooked, covDefined, cov,
                   exitListeners, moduleCache, mochaFiles, loads, execs,
                   exited, reportCalls, covAtExit, coverageMap,
                   noCoverageLogged, dirs, createdDirs, snapshots, rendered,
                   exitThrew>>
    /\ UNCHANGED sideVars

\* mocha's completion callback
MochaDone(k) ==
    /\ pc = "running" /\ ~exited
    /\ clbCalls' = Append(clbCalls, CountCall(k))
    /\ pc' = "done"
    /\ UNCHANGED <<platform, disk, configFile, testOptions, runThrew,
                   coverOptions, matchFiles, hooked, covDefined, cov,
                   exitListeners, moduleCache, mochaFiles, loads, execs,
                   exited, reportCalls, covAtExit, coverageMap,
                   noCoverageLogged, dirs, createdDirs, snapshots, rendered,
                   exitThrew>>
    /\ UNCHANGED sideVars

(***************************************************************************)
(* reportCoverage, called by the process 'exit' listener                   *)
(***************************************************************************)
\* a test that only looks at typeof
NoCoverageOnlyUndefined(defined, table) == ~defined

\* an exit hook that leaves the require hook in place
UnhookRequireSkipped == TRUE

\* this.unhookRequire(), the first statement of reportCoverage: the value of
\* 'hooked' after it
UnhookRequire == FALSE

\* the test of line 114: the counter table is undefined or has no key
NoCoverage(defined, table) == ~defined \/ DOMAIN table = {}

\* a loop that leaves the instrumenter's counters as they are
ZeroStatementsSkipped(fc) == fc

\* the reset of lines 130-132: every statement counter becomes 0
ZeroStatements(fc) == [fc EXCEPT !.s = [i \in DOMAIN fc.s |-> 0]]

\* a loop without the !cov[file] test: captured entries are replaced too
FillGapsOverwrites(table, files) ==
    [n \in DOMAIN table \cup files |-> ZeroStatements(Instrument(n))]

\* the loop of lines 124-135: every file of matchFn.files without an entry
\* in the table gets the instrumenter's FileCoverage, statements reset
FillGaps(table, files) ==
    [n \in DOMAIN table \cup files |->
        IF n \in DOMAIN table THEN table[n]
        ELSE ZeroStatements(Instrument(n))]

\* createSourceMapStore().transformCoverage(createCoverageMap(table)).map,
\* with no source map registered: one entry per key of the table
TransformCoverage(table) == [n \in DOMAIN table |-> table[n]]

Parent(dir) == IF dir = "deep/coverage" THEN "deep" ELSE "."

\* fs.mkdirSync fails with ENOENT when the parent directory is missing
MkdirThrows(dir, existing) ==
    dir \notin existing /\ Parent(dir) \notin existing \cup {"."}

\* mkDirIfExists
MkDirIfExists(dir, existing) ==
    IF dir \notin existing THEN existing \cup {dir} ELSE existing

\* the snapshot's file: coverage[-<pid>].json in the reporting directory
CoverageFile(opts) ==
    <<opts.relativeCoverageDir,
      IF opts.includePid THEN "coverage-<pid>.json" ELSE "coverage.json">>

\* a default that also replaces an empty list
ReportTypesEmptyDefault(opts) ==
    IF opts.reports.isArray /\ opts.reports.list # <<>>
    THEN opts.reports.list ELSE <<"lcovonly">>

\* line 150
ReportTypes(opts) ==
    IF opts.reports.isArray THEN opts.reports.list ELSE <<"lcovonly">>

\* iReports.create throws for a report type it does not know
SupportedReports == {"lcovonly", "html"}

\* a loop that skips a type it cannot create and goes on
RenderedReportsSkipping(types) ==
    SelectSeq(types, LAMBDA t : t \in SupportedReports)

RECURSIVE RenderedReports(_)
\* the forEach of line 153 stops at the first type that throws
RenderedReports(types) ==
    IF types = <<>> \/ Head(types) \notin SupportedReports
    THEN <<>>
    ELSE <<Head(types)>> \o RenderedReports(Tail(types))

RenderThrows(types) == \E i \in DOMAIN types : types[i] \notin SupportedReports

\* a snapshot serialized before the gaps are filled
JsonSnapshotBeforeFill(found, filled) == found

\* JSON.stringify(cov) at line 144: cov is the table the loop has filled,
\* not the table as reportCoverage found it
JsonSnapshot(found, filled) == filled

\* reportCoverage
ReportCoverage ==
    /\ hooked' = UnhookRequire
    /\ covAtExit' = cov
    /\ IF NoCoverage(covDefined, cov)
       THEN /\ noCoverageLogged' = TRUE
            /\ UNCHANGED <<cov, coverageMap, dirs, createdDirs, snapshots,
                           rendered, exitThrew>>
       ELSE LET filled == FillGaps(cov, matchFiles)
                dir == coverOptions.relativeCoverageDir
                types == ReportTypes(coverOptions)
            IN  /\ cov' = filled
                /\ coverageMap' =
                      [built |-> TRUE, map |-> TransformCoverage(filled)]
                /\ UNCHANGED noCoverageLogged
                /\ IF MkdirThrows(dir, dirs)
                   THEN /\ exitThrew' = TRUE
                        /\ UNCHANGED <<dirs, createdDirs, snapshots, rendered>>
                   ELSE /\ dirs' = MkDirIfExists(dir, dirs)
                        /\ createdDirs' =
                              createdDirs \cup (MkDirIfExists(dir, dirs) \ dirs)
                        /\ snapshots' =
                              Extend(snapshots, CoverageFile(coverOptions),
                                     JsonSnapshot(cov, filled))
                        /\ rendered' = rendered \o RenderedReports(types)
                        /\ exitThrew' = RenderThrows(types)

\* The process emits 'exit': every listener registered by setupCoverage
\* calls reportCoverage (setupCoverage runs at most once, so there is at
\* most one).
Exit ==
    /\ ~exited
    /\ exited' = TRUE
    /\ reportCalls' = reportCalls + exitListeners
    /\ IF exitListeners = 0
       THEN UNCHANGED <<hooked, cov, covAtExit, coverageMap, noCoverageLogged,
                        dirs, createdDirs, snapshots, rendered, exitThrew>>
       ELSE ReportCoverage
    /\ UNCHANGED <<platform, disk, configFile, testOptions, pc, runThrew,
                   clbCalls, coverOptions, matchFiles, covDefined,
                   exitListeners, moduleCache, mochaFiles, loads, execs>>
    /\ UNCHANGED sideVars

\* reportCoverage called once more, right after the exit listener's call
ReportAgain ==
    /\ exited
    /\ reportCalls = 1
    /\ reportCalls' = reportCalls + 1
    /\ ReportCoverage
    /\ UNCHANGED <<platform, disk, configFile, testOptions, pc, runThrew,
                   clbCalls, coverOptions, matchFiles, covDefined,
                   exitListeners, moduleCache, mochaFiles, loads, execs, exited>>
    /\ UNCHANGED sideVars

Next ==
    \/ Configure
    \/ Run
    \/ GlobError
    \/ GlobFiles
    \/ \E n \in Names : Require(n)
    \/ \E n \in Names, i \in StmtIds : Execute(n, i)
    \/ LoadThrows
    \/ LoadDone
    \/ \E k \in 0..MaxFailures : MochaDone(k)
    \/ Exit

Spec == Init /\ [][Next]_vars

\* a run whose report is emitted twice
NextTwice ==
    \/ Next
    \/ ReportAgain

SpecTwice == Init /\ [][NextTwice]_vars

(***************************************************************************)
(* Several CoverageRunners in one process (run called more than once)      *)
(***************************************************************************)
MaxClock == 2      \* milliseconds that pass
MaxRuns == 2       \* runners set up in the process
MaxHits == 2       \* value a statement counter reaches

\* the constructor's key: '$$cov_' + new Date().getTime() + '$$'
CoverageVar(t) == <<"$$cov_", t, "$$">>

\* a millisecond passes
Tick ==
    /\ clock < MaxClock
    /\ clock' = clock + 1
    /\ UNCHANGED <<runners, globals, procs>>
    /\ UNCHANGED runVars

\* new CoverageRunner(...) and setupCoverage(): the key is taken from the
\* clock and global[coverageVar] is set to {}
NewRunner ==
    /\ Len(runners) < MaxRuns
    /\ runners' = Append(runners, CoverageVar(clock))
    /\ globals' = Extend(globals, CoverageVar(clock), EmptyTable)
    /\ UNCHANGED <<clock, procs>>
    /\ UNCHANGED runVars

\* a module instrumented by runner r is loaded: its top level registers its
\* FileCoverage in global[coverageVar of r]
InstrumentedLoad(r, n) ==
    /\ r \in DOMAIN runners
    /\ n \in disk
    /\ n \notin DOMAIN globals[runners[r]]
    /\ globals' = [globals EXCEPT ![runners[r]] = Extend(@, n, LoadedCoverage(n))]
    /\ UNCHANGED <<clock, runners, procs>>
    /\ UNCHANGED runVars

\* code instrumented by runner r executes statement i of a registered module
InstrumentedHit(r, n, i) ==
    /\ r \in DOMAIN runners
    /\ n \in DOMAIN globals[runners[r]]
    /\ globals[runners[r]][n].s[i] < MaxHits
    /\ globals' = [globals EXCEPT ![runners[r]][n].s[i] = @ + 1]
    /\ UNCHANGED <<clock, runners, procs>>
    /\ UNCHANGED runVars

InitRuns ==
    /\ Init
    /\ platform = "linux"
    /\ disk = {"a.js"}
    /\ configFile = DefaultConfig
    /\ moduleCache = EmptyTable
    /\ dirs = {}

NextRuns ==
    \/ Tick
    \/ NewRunner
    \/ \E r \in 1..MaxRuns, n \in Names : InstrumentedLoad(r, n)
    \/ \E r \in 1..MaxRuns, n \in Names, i \in StmtIds : InstrumentedHit(r, n, i)

SpecRuns == InitRuns /\ [][NextRuns]_vars

(***************************************************************************)
(* Several runner processes whose exit hooks write into one directory      *)
(***************************************************************************)
\* process.pid: the operating system gives running processes distinct ids
PidOf(p) == 4000 + p

\* line 142: pidExt
PidExt(opts, pid) == IF opts.includePid THEN "-" \o ToString(pid) ELSE ""

\* line 142: coverageFile
CoverageFileOf(opts, pid) ==
    <<opts.relativeCoverageDir, "coverage" \o PidExt(opts, pid) \o ".json">>

\* the counter table of process p at its exit (not empty)
TableOf(p) == [n \in {"a.js"} |-> [path |-> n, s |-> [i \in StmtIds |-> p]]]

\* mkDirIfExists, first half: fs.existsSync(dir)
PExistsSync(p) ==
    /\ procs[p].pc = "start"
    /\ procs' = [procs EXCEPT ![p] =
                    [pc |-> IF configFile.relativeCoverageDir \in dirs
                            THEN "ready" ELSE "checked",
                     sawDir |-> configFile.relativeCoverageDir \in dirs]]
    /\ UNCHANGED <<clock, runners, globals>>
    /\ UNCHANGED runVars

\* mkDirIfExists, second half: fs.mkdirSync(dir), which fails when the
\* directory exists by now (EEXIST) or its parent is missing (ENOENT)
PMkdirSync(p) ==
    /\ procs[p].pc = "checked"
    /\ LET dir == configFile.relativeCoverageDir IN
       IF dir \in dirs \/ MkdirThrows(dir, dirs)
       THEN /\ procs' = [procs EXCEPT ![p].pc = "threw"]
            /\ UNCHANGED <<dirs, createdDirs>>
       ELSE /\ procs' = [procs EXCEPT ![p].pc = "ready"]
            /\ dirs' = dirs \cup {dir}
            /\ createdDirs' = createdDirs \cup {dir}
    /\ UNCHANGED <<clock, runners, globals>>
    /\ UNCHANGED <<platform, disk, configFile, testOptions, pc, runThrew,
                   clbCalls, coverOptions, matchFiles, hooked, covDefined, cov,
                   exitListeners, moduleCache, mochaFiles, loads, execs,
                   exited, reportCalls, covAtExit, coverageMap,
                   noCoverageLogged, snapshots, rendered, exitThrew>>

\* fs.writeFileSync(coverageFile, JSON.stringify(cov))
PWriteFileSync(p) ==
    /\ procs[p].pc = "ready"
    /\ procs' = [procs EXCEPT ![p].pc = "written"]
    /\ snapshots' = Extend(snapshots, CoverageFileOf(configFile, PidOf(p)),
                           TableOf(p))
    /\ UNCHANGED <<clock, runners, globals>>
    /\ UNCHANGED <<platform, disk, configFile, testOptions, pc, runThrew,
                   clbCalls, coverOptions, matchFiles, hooked, covDefined, cov,
                   exitListeners, moduleCache, mochaFiles, loads, execs,
                   exited, reportCalls, covAtExit, coverageMap,
                   noCoverageLogged, dirs, createdDirs, rendered, exitThrew>>

\* the reports of lines 145-153
PRender(p) ==
    /\ procs[p].pc = "written"
    /\ procs' = [procs EXCEPT ![p].pc =
                    IF RenderThrows(ReportTypes(configFile))
                    THEN "threw" ELSE "done"]
    /\ rendered' = rendered \o RenderedReports(ReportTypes(configFile))
    /\ UNCHANGED <<clock, runners, globals>>
    /\ UNCHANGED <<platform, disk, configFile, testOptions, pc, runThrew,
                   clbCalls, coverOptions, matchFiles, hooked, covDefined, cov,
                   exitListeners, moduleCache, mochaFiles, loads, execs,
                   exited, reportCalls, covAtExit, coverageMap,
                   noCoverageLogged, dirs, createdDirs, snapshots, exitThrew>>

InitPids ==
    /\ Init
    /\ platform = "linux"
    /\ disk = {"a.js"}
    /\ moduleCache = EmptyTable
    /\ configFile.kind = "ok"
    /\ configFile.enabled
    /\ Truthy(configFile.relativeSourcePath)
    /\ configFile.relativeCoverageDir = "coverage"

NextPids ==
    \/ \E p \in Procs : PExistsSync(p)
    \/ \E p \in Procs : PMkdirSync(p)
    \/ \E p \in Procs : PWriteFileSync(p)
    \/ \E p \in Procs : PRender(p)

SpecPids == InitPids /\ [][NextPids]_vars

(***************************************************************************)
(* Properties                                                              *)
(***************************************************************************)
ErrorReported == \E i \in DOMAIN clbCalls : clbCalls[i].kind = "error"
CountReported == \E i \in DOMAIN clbCalls : clbCalls[i].kind = "count"
RunCalled == pc # "idle"
TestsStarted == pc \in {"globbing", "loading", "running", "done"}
Armed == exitListeners > 0

\* run was called on a config with enabled=true and a falsy relativeSourcePath
SetupErrorCase ==
    /\ RunCalled
    /\ testOptions = "set"
    /\ configFile.kind = "ok"
    /\ configFile.enabled
    /\ ~Truthy(configFile.relativeSourcePath)

\* C1: with enabled=true and a falsy relativeSourcePath, run reports an error
\* through the callback, coverage is never armed (no hook, no counter table,
\* no exit listener) and test execution never starts (no glob, no test file
\* added to mocha or loaded).
C1_SetupErrorStopsRun ==
    SetupErrorCase =>
        /\ ErrorReported
        /\ ~hooked /\ ~covDefined /\ ~Armed
        /\ ~TestsStarted
        /\ mochaFiles = {}

\* C2: the CoverageMap built at exit has exactly one entry per path of
\* SourceFileSet and no entry for any other path.
C2_OneEntryPerSourceFile ==
    coverageMap.built => DOMAIN coverageMap.map = matchFiles

AllStatementsZero(fc) == \A i \in DOMAIN fc.s : fc.s[i] = 0

\* C3: when the counter table is not empty at exit, every path of
\* SourceFileSet that has no entry in it gets one whose statement counters are
\* all zero, and every entry added at exit has all statement counters zero.
C3_SyntheticEntriesZero ==
    (exited /\ Armed /\ covDefined /\ DOMAIN covAtExit # {}) =>
        /\ coverageMap.built
        /\ \A n \in matchFiles \ DOMAIN covAtExit :
              /\ n \in DOMAIN cov
              /\ n \in DOMAIN coverageMap.map
              /\ coverageMap.map[n] = cov[n]
        /\ \A n \in DOMAIN cov \ DOMAIN covAtExit : AllStatementsZero(cov[n])

\* a file nobody loaded, with a function declaration, got its entry at exit
C3_Witness ==
    /\ exited /\ coverageMap.built
    /\ \E n \in matchFiles \ DOMAIN covAtExit :
          /\ \E i \in StmtIds : Instrument(n).s[i] = 1
          /\ AllStatementsZero(cov[n])

\* C4: aggregation at exit leaves the FileCoverage of every path that was in
\* the counter table unchanged, in the table and in the CoverageMap, so a
\* loaded file keeps a non-zero statement counter.
C4_CapturedEntriesUnchanged ==
    (exited /\ Armed) =>
        \A n \in DOMAIN covAtExit :
            /\ n \in DOMAIN cov
            /\ cov[n] = covAtExit[n]
            /\ coverageMap.built => coverageMap.map[n] = covAtExit[n]
            /\ \E i \in StmtIds : cov[n].s[i] > 0

\* the aggregation added a synthetic entry next to a captured one that a
\* test had executed beyond its load
C4_Witness ==
    /\ exited /\ coverageMap.built
    /\ DOMAIN covAtExit # {}
    /\ DOMAIN cov # DOMAIN covAtExit
    /\ \E n \in DOMAIN covAtExit : cov[n] # LoadedCoverage(n)

\* C5: with coverage enabled, the require hook is installed and the counter
\* table initialised before the test-file glob is started, before any test
\* file is added to mocha and before any is loaded.
C5_HookBeforeTests ==
    (configFile.kind = "ok" /\ configFile.enabled /\ ~exited
        /\ (TestsStarted \/ mochaFiles # {}))
    => (hooked /\ covDefined)

\* mocha has loaded a test file of a run with coverage enabled
C5_Witness ==
    /\ configFile.kind = "ok" /\ configFile.enabled
    /\ pc = "loading"
    /\ mochaFiles \subseteq DOMAIN moduleCache
    /\ hooked

\* C6: once coverage is armed, reportCoverage is called exactly once, by the
\* exit event, whatever the run reported; before the exit event nothing of a
\* report exists.
C6_ReportOnceAtExit ==
    /\ reportCalls = (IF exited /\ Armed THEN 1 ELSE 0)
    /\ ~exited =>
          /\ ~coverageMap.built
          /\ ~noCoverageLogged
          /\ createdDirs = {}
          /\ DOMAIN snapshots = {}
          /\ rendered = <<>>

\* the report was attempted at the exit of a run that had reported an error
C6_Witness ==
    /\ exited /\ Armed /\ reportCalls = 1
    /\ pc = "done" /\ ErrorReported
    /\ coverageMap.built

\* C7: the completion callback is invoked with an error or with a failure
\* count, never with both in the same run, and not more than once.
C7_ErrorOrCountNotBoth ==
    /\ ~(ErrorReported /\ CountReported)
    /\ Len(clbCalls) <= 1

\* C8: no failure inside run escapes it as a thrown exception.
C8_NoExceptionEscapesRun == ~runThrew

\* C9: with the counter table absent or empty at exit, the exit hook logs
\* 'no coverage collected' and returns without raising: no directory is
\* created, no snapshot written, no report rendered.
C9_NoCoverageSkipsReport ==
    (exited /\ Armed /\ (~covDefined \/ DOMAIN covAtExit = {})) =>
        /\ noCoverageLogged
        /\ ~exitThrew
        /\ ~coverageMap.built
        /\ cov = covAtExit
        /\ createdDirs = {}
        /\ DOMAIN snapshots = {}
        /\ rendered = <<>>

\* the exit hook found an empty table although source files were discovered
\* and its report directory did not exist
C9_Witness ==
    /\ exited /\ Armed
    /\ DOMAIN covAtExit = {}
    /\ matchFiles # {}
    /\ coverOptions.relativeCoverageDir \notin dirs
    /\ noCoverageLogged

\* C10: coverage is armed only if the config file exists and says
\* enabled=true; with enabled=false or no config file run arms nothing,
\* creates nothing, and goes on to discover and run the tests.
C10_ArmedOnlyIfEnabled ==
    /\ (Armed \/ hooked \/ covDefined) =>
          (configFile.kind = "ok" /\ configFile.enabled)
    /\ (RunCalled /\ testOptions = "set"
          /\ (configFile.kind = "missing"
                \/ (configFile.kind = "ok" /\ ~configFile.enabled)))
       => /\ ~hooked /\ ~Armed /\ ~covDefined
          /\ coverOptions = NoOptions
          /\ reportCalls = 0
          /\ createdDirs = {}
          /\ DOMAIN snapshots = {}
          /\ ~runThrew
          /\ TestsStarted

\* a run with enabled=false went through its tests and the process exited
C10_Witness ==
    /\ configFile.kind = "ok" /\ ~configFile.enabled
    /\ pc = "done" /\ CountReported
    /\ exited

\* reportCoverage got as far as writing the JSON snapshot
SnapshotWritten == exited /\ Armed /\ DOMAIN snapshots # {}

\* index of the first identifier iReports.create rejects, Len + 1 if none
FirstUnsupported(list) ==
    IF \E i \in DOMAIN list : list[i] \notin SupportedReports
    THEN CHOOSE i \in DOMAIN list :
            /\ list[i] \notin SupportedReports
            /\ \A j \in 1..(i - 1) : list[j] \in SupportedReports
    ELSE Len(list) + 1

\* C11 as stated: one report per identifier of the list, in order, and one
\* lcovonly report when the list is empty, missing or not a list (lists whose
\* identifiers are all supported).
C11_DefaultWhenEmptyOrMissing ==
    (SnapshotWritten
        /\ FirstUnsupported(configFile.reports.list) > Len(configFile.reports.list))
    => rendered = (IF configFile.reports.isArray /\ configFile.reports.list # <<>>
                   THEN configFile.reports.list
                   ELSE <<"lcovonly">>)

\* C11 amended: one report per identifier of the list, in list order, up to
\* the first identifier the renderer rejects; one lcovonly report when reports
\* is missing or not a list; no report when the list is empty.
C11_ReportsPerListOrDefault ==
    SnapshotWritten =>
        rendered = (IF configFile.reports.isArray
                    THEN SubSeq(configFile.reports.list, 1,
                                FirstUnsupported(configFile.reports.list) - 1)
                    ELSE <<"lcovonly">>)

\* the snapshot was written for a config whose reports list is empty, and
\* no report was rendered
C11_Witness ==
    /\ SnapshotWritten
    /\ configFile.reports.isArray
    /\ configFile.reports.list = <<>>
    /\ rendered = <<>>
    /\ ~exitThrew

\* C15: after setup no file of SourceFileSet is left in the module cache from
\* an uninstrumented load, so its next require goes through the hook.
C15_SetupEvictsSourceFiles ==
    (hooked /\ ~exited) =>
        \A n \in DOMAIN moduleCache : MatchFn(n) => moduleCache[n]

\* C16: on win32 a source file loaded under a path of different letter case
\* has exactly one entry in the final CoverageMap, the captured one.
C16_OneEntryPerFileOnWin32 ==
    (platform = "win32" /\ coverageMap.built) =>
        \A n \in DOMAIN covAtExit :
            /\ moduleCache[n]
            /\ \A m \in DOMAIN coverageMap.map :
                  ToLocaleLowerCase(m) = ToLocaleLowerCase(n) => m = n

\* C17: an unsupported report identifier is not rejected by run; at exit the
\* snapshot and the reports listed before it are written, the identifiers
\* after it are not rendered, and the error leaves the exit listener.
C17_UnsupportedReportFailsAtRender ==
    LET list == configFile.reports.list
        k == FirstUnsupported(list)
    IN  (configFile.kind = "ok" /\ configFile.reports.isArray /\ k <= Len(list))
        => /\ (RunCalled /\ testOptions = "set") =>
                 (~runThrew /\ Armed /\ TestsStarted)
           /\ SnapshotWritten =>
                 /\ exitThrew
                 /\ rendered = SubSeq(list, 1, k - 1)
                 /\ CoverageFile(coverOptions) \in DOMAIN snapshots
                 /\ coverOptions.relativeCoverageDir \in dirs

\* the exit hook failed on "bogus" after rendering "lcovonly"
C17_Witness ==
    /\ SnapshotWritten
    /\ configFile.reports.list = <<"lcovonly", "bogus", "html">>
    /\ rendered = <<"lcovonly">>
    /\ exitThrew

\* C18: with a non-empty counter table at exit the output directory exists
\* and the snapshot is written, whatever relativeCoverageDir is.
C18_OutputDirEnsured ==
    (exited /\ Armed /\ covDefined /\ DOMAIN covAtExit # {}) =>
        /\ coverOptions.relativeCoverageDir \in dirs
        /\ CoverageFile(coverOptions) \in DOMAIN snapshots

\* C19: the require hook is installed from arming until the exit hook runs
\* and uninstalled by the exit hook on each of its paths; the files that get
\* a synthetic entry at exit were not loaded through the hook.
C19_HookedUntilExit ==
    /\ Armed => (hooked <=> ~exited)
    /\ (exited /\ Armed) =>
          \A n \in DOMAIN cov \ DOMAIN covAtExit :
              n \in DOMAIN moduleCache => ~moduleCache[n]

\* the exit hook has filled gaps, and has returned early, with the hook gone
C19_Witness ==
    /\ exited /\ Armed /\ ~hooked
    /\ \/ noCoverageLogged /\ matchFiles # {}
       \/ exitThrew /\ DOMAIN cov # DOMAIN covAtExit

\* C14: a second emission right after the first adds no entry to the counter
\* table, changes no counter and leaves every snapshot file with the content
\* the first emission gave it.
C14_SecondEmissionSameSnapshot ==
    [][(exited /\ reportCalls' = reportCalls + 1) =>
          /\ cov' = cov
          /\ coverageMap' = coverageMap
          /\ snapshots' = snapshots
          /\ dirs' = dirs]_vars

\* two emissions of a run whose first emission filled a gap and wrote the
\* snapshot
C14_Witness ==
    /\ reportCalls = 2
    /\ CoverageFile(coverOptions) \in DOMAIN snapshots
    /\ \E n \in DOMAIN cov : AllStatementsZero(cov[n])
    /\ \E n \in DOMAIN cov : ~AllStatementsZero(cov[n])

\* C12: the snapshot is coverage-<pid>.json with includePid and
\* coverage.json without; with includePid, once two processes with distinct
\* pids have finished their exit hooks on one directory, each one's snapshot
\* file is there with its own content.
C12_TwoSnapshotsNoClobber ==
    /\ \A p \in Procs :
          CoverageFileOf(configFile, PidOf(p))[2] =
              (IF configFile.includePid
               THEN "coverage-" \o ToString(PidOf(p)) \o ".json"
               ELSE "coverage.json")
    /\ (configFile.includePid
          /\ \A p \in Procs : procs[p].pc \in {"done", "threw"})
       => \A p \in Procs :
             /\ CoverageFileOf(configFile, PidOf(p)) \in DOMAIN snapshots
             /\ snapshots[CoverageFileOf(configFile, PidOf(p))] = TableOf(p)

\* C13: every runner of a process has a coverageVar different from every
\* other runner's, whatever the time between their constructions.
C13_DistinctKeys ==
    \A i, j \in DOMAIN runners : i # j => runners[i] # runners[j]

====
